---- MODULE Spec2Model ----
(***************************************************************************)
(* Model of the search / request / render lifecycle of the App component   *)
(* (src/vite.config.ts, lines 49-361).                                     *)
(*                                                                         *)
(* The component state is the five useState cells.  Every invocation of    *)
(* the async function handleSearch is a task that advances through its     *)
(* await points (two setTimeout delays, the fetch, response.json()); the   *)
(* browser event loop interleaves the continuations of all live tasks with *)
(* the user's input events.  React re-renders after every state update, so *)
(* each action ends by recomputing the rendered view.                      *)
(***************************************************************************)
EXTENDS Naturals, Sequences, FiniteSets

VARIABLES
    searchQuery,    \* useState('')            line 50, a sequence of characters
    isLoading,      \* useState(false)         line 51
    data,           \* useState(null)          line 52, <<>> is null, <<p>> is p
    error,          \* useState(null)          line 53, <<>> is null, <<m>> is m
    loadingPhase,   \* useState('')            line 54
    view,           \* what the last render put on screen, lines 91-360
    tasks,          \* the invocations of handleSearch and where each one stands
    overlap,        \* some invocation began while another was still in progress
    event           \* the last step of handleSearch that ran, and of which invocation

vars == <<searchQuery, isLoading, data, error, loadingPhase, view, tasks, overlap, event>>

appState == <<searchQuery, isLoading, data, error, loadingPhase>>

-----------------------------------------------------------------------------
(* Bounds of the model *)

MaxTasks == 2       \* invocations of handleSearch that pass the empty-query test
MaxLen == 1         \* length of the text typed in the input
MaxMentions == 2    \* quotes per sentiment category in a response
MaxArticles == 1    \* articles in a response

TaskIds == 1..MaxTasks

Chars == {" ", "a"}

RECURSIVE SeqsUpTo(_, _)
SeqsUpTo(S, n) ==
    IF n = 0 THEN {<<>>}
    ELSE LET shorter == SeqsUpTo(S, n - 1)
         IN  shorter \cup {Append(s, c) : s \in shorter, c \in S}

Queries == SeqsUpTo(Chars, MaxLen)

-----------------------------------------------------------------------------
(* Optional values: null is the empty sequence *)

Null == <<>>
Some(x) == <<x>>

-----------------------------------------------------------------------------
(* String functions *)

IsSpace(c) == c = " "

RECURSIVE TrimStart(_)
TrimStart(s) ==
    IF s = <<>> THEN <<>>
    ELSE IF IsSpace(Head(s)) THEN TrimStart(Tail(s))
    ELSE s

RECURSIVE TrimEnd(_)
TrimEnd(s) ==
    IF s = <<>> THEN <<>>
    ELSE IF IsSpace(s[Len(s)]) THEN TrimEnd(SubSeq(s, 1, Len(s) - 1))
    ELSE s

TrimKeepsBlanks(s) == s

\* String.prototype.trim, line 57
Trim(s) == TrimEnd(TrimStart(s))

\* encodeURIComponent on one character, line 74: a space is escaped
EncodeChar(c) == IF IsSpace(c) THEN <<"%", "2", "0">> ELSE <<c>>

RECURSIVE EncodeURIComponent(_)
EncodeURIComponent(s) ==
    IF s = <<>> THEN <<>>
    ELSE EncodeChar(Head(s)) \o EncodeURIComponent(Tail(s))

\* the template literal of line 74
ScrapeUrl(q) == <<"/api/scrape?topic=">> \o EncodeURIComponent(q)

-----------------------------------------------------------------------------
(* The response body: ApiResponse, lines 30-47 *)

Quotes(n) == [i \in 1..n |-> "quote"]

Article ==
    [title |-> "title",
     url |-> [hostname |-> "host", href |-> "https://host/path"],
     text |-> "text",
     gemini_summary |-> <<"first line", "second line">>]

Articles(n) == [i \in 1..n |-> Article]

MkResponse(a, p, n, g) ==
    [name |-> "name",
     articles |-> Articles(a),
     mentions |-> [positive |-> Quotes(p), neutral |-> Quotes(n), negative |-> Quotes(g)]]

\* every well-formed body within the bounds
ApiResponse ==
    {MkResponse(a, p, n, g) : a \in 0..MaxArticles,
                              p \in 0..MaxMentions,
                              n \in 0..MaxMentions,
                              g \in 0..MaxMentions}

\* the bodies the server answers a search with
ServerBodies == {MkResponse(0, 0, 0, 0), MkResponse(MaxArticles, MaxMentions, 0, MaxMentions)}

-----------------------------------------------------------------------------
(* Loading phase labels, lines 65, 68, 71 *)

Searching == "Searching social platforms..."
Scraping == "Scraping and parsing results..."
Analyzing == "Analyzing sentiment and synthesizing data..."

(* Values thrown inside the try block, lines 74-80 *)

FetchTypeError == [isError |-> TRUE, message |-> "Failed to fetch"]
NotOkError == [isError |-> TRUE, message |-> "Network response was not ok"]
JsonSyntaxError == [isError |-> TRUE, message |-> "Unexpected token < in JSON at position 0"]

\* line 83
CatchMessage(err) == IF err.isError THEN err.message ELSE "An unknown error occurred"

-----------------------------------------------------------------------------
(* Rendering, lines 91-360 *)

SentimentDataSwapped(d) ==
    IF d # Null
    THEN <<[name |-> "Positive", count |-> Len(d[1].mentions.positive), fill |-> "#4ade80"],
           [name |-> "Neutral", count |-> Len(d[1].mentions.negative), fill |-> "#94a3b8"],
           [name |-> "Negative", count |-> Len(d[1].mentions.neutral), fill |-> "#f87171"]>>
    ELSE <<>>

\* sentimentData, lines 91-107
SentimentData(d) ==
    IF d # Null
    THEN <<[name |-> "Positive", count |-> Len(d[1].mentions.positive), fill |-> "#4ade80"],
           [name |-> "Neutral", count |-> Len(d[1].mentions.neutral), fill |-> "#94a3b8"],
           [name |-> "Negative", count |-> Len(d[1].mentions.negative), fill |-> "#f87171"]>>
    ELSE <<>>

\* Array.prototype.slice(1, 10), lines 323, 335, 347
Slice1To10(s) == SubSeq(s, 2, IF Len(s) < 10 THEN Len(s) ELSE 10)

\* one card of the article list, lines 278-313
ArticleCard(article, index) ==
    [title |-> article.title,
     href |-> article.url.href,
     label |-> index + 1,
     summary |-> Head(article.gemini_summary),
     hostname |-> article.url.hostname]

\* the results section, lines 217-356
Results(r) ==
    [name |-> r.name,
     sources |-> Len(r.articles),
     positive |-> Len(r.mentions.positive),
     neutral |-> Len(r.mentions.neutral),
     negative |-> Len(r.mentions.negative),
     articles |-> [k \in 1..Len(r.articles) |-> ArticleCard(r.articles[k], k - 1)],
     positiveQuotes |-> Slice1To10(r.mentions.positive),
     neutralQuotes |-> Slice1To10(r.mentions.neutral),
     negativeQuotes |-> Slice1To10(r.mentions.negative)]

\* the JSX returned by App, lines 109-360
Render(loading, d, e, phase) ==
    [heroHeight |-> IF d # Null \/ loading THEN "40vh" ELSE "100vh",
     buttonDisabled |-> loading,
     loadingPanel |-> IF loading THEN Some(phase) ELSE Null,
     errorPanel |-> IF e # Null /\ e # Some("") THEN e ELSE Null,
     chart |-> SentimentData(d),
     results |-> IF d # Null THEN Some(Results(d[1])) ELSE Null]

Rerender == view' = Render(isLoading', data', error', loadingPhase')

-----------------------------------------------------------------------------
(* The invocations of handleSearch, lines 56-88 *)

\* pc: "none" (not invoked), "delay1" (await of line 66), "delay2" (await of
\* line 69), "fetch" (await of line 74), "json" (await of line 80), "done"
\* query: the searchQuery the closure captured; url: the request in flight;
\* both are released when the invocation returns
\* calls: the calls of lines 59-74 made so far, in program order
NoTask ==
    [pc |-> "none", query |-> <<>>, url |-> Null, calls |-> <<>>]

\* the calls handleSearch makes, in program order: lines 59-66, 68-69, 71-74
BeginCalls ==
    <<"setIsLoading(true)", "setData(null)", "setError(null)",
      "setLoadingPhase(Searching)", "setTimeout(1500)">>
Timer1Calls == <<"setLoadingPhase(Scraping)", "setTimeout(2000)">>
Timer2Calls == <<"setLoadingPhase(Analyzing)", "fetch">>

InProgress(i) == tasks[i].pc \in {"delay1", "delay2", "fetch", "json"}

Started == {i \in TaskIds : tasks[i].pc # "none"}

Ev(op, i) == [op |-> op, task |-> i]

Init ==
    /\ searchQuery = <<>>
    /\ isLoading = FALSE
    /\ data = Null
    /\ error = Null
    /\ loadingPhase = ""
    /\ view = Render(FALSE, Null, Null, "")
    /\ tasks = [i \in TaskIds |-> NoTask]
    /\ overlap = FALSE
    /\ event = Ev("mount", 0)

\* onChange of the input, line 157
SetSearchQuery(q) ==
    /\ q # searchQuery
    /\ searchQuery' = q
    /\ UNCHANGED <<isLoading, data, error, loadingPhase, tasks, overlap, event>>
    /\ Rerender

\* lines 59-66: the synchronous part of handleSearch up to its first await
Begin(i) ==
    /\ isLoading' = TRUE
    /\ data' = Null
    /\ error' = Null
    /\ loadingPhase' = Searching
    /\ tasks' = [tasks EXCEPT ![i] =
                    [pc |-> "delay1", query |-> searchQuery, url |-> Null,
                     calls |-> BeginCalls]]
    /\ overlap' = (overlap \/ \E j \in TaskIds : InProgress(j))
    /\ UNCHANGED searchQuery
    /\ Rerender
    /\ event' = Ev("begin", i)

\* handleSearch, lines 56-66
HandleSearch ==
    IF Trim(searchQuery) = <<>>
    THEN /\ UNCHANGED <<searchQuery, isLoading, data, error, loadingPhase, view, tasks, overlap>>
         /\ event' = Ev("return", 0)
    ELSE \E i \in TaskIds :
            /\ tasks[i].pc = "none"
            /\ \A j \in 1..(i - 1) : tasks[j].pc # "none"
            /\ Begin(i)

\* onClick of the button, lines 162-164: a disabled button takes no click
ClickSearch ==
    /\ ~view.buttonDisabled
    /\ HandleSearch

Keys == {"Enter", "a"}

\* onKeyPress of the input, line 160: only the Enter key calls handleSearch
OnKeyPress(key) ==
    /\ key = "Enter"
    /\ HandleSearch

Timer1SkipsScraping(i) ==
    /\ tasks[i].pc = "delay1"
    /\ loadingPhase' = Analyzing
    /\ tasks' = [tasks EXCEPT ![i].pc = "fetch",
                              ![i].url = Some(ScrapeUrl(tasks[i].query)),
                              ![i].calls = @ \o Timer2Calls]
    /\ UNCHANGED <<searchQuery, isLoading, data, error, overlap>>
    /\ Rerender
    /\ event' = Ev("timer1", i)

\* lines 66-69: the first timer fires
Timer1(i) ==
    /\ tasks[i].pc = "delay1"
    /\ loadingPhase' = Scraping
    /\ tasks' = [tasks EXCEPT ![i].pc = "delay2",
                              ![i].calls = @ \o Timer1Calls]
    /\ UNCHANGED <<searchQuery, isLoading, data, error, overlap>>
    /\ Rerender
    /\ event' = Ev("timer1", i)

\* lines 69-74: the second timer fires; the request goes out in the same step
Timer2(i) ==
    /\ tasks[i].pc = "delay2"
    /\ loadingPhase' = Analyzing
    /\ tasks' = [tasks EXCEPT ![i].pc = "fetch",
                              ![i].url = Some(ScrapeUrl(tasks[i].query)),
                              ![i].calls = @ \o Timer2Calls]
    /\ UNCHANGED <<searchQuery, isLoading, data, error, overlap>>
    /\ Rerender
    /\ event' = Ev("timer2", i)

FinallyKeepsPhase(i) ==
    /\ isLoading' = FALSE
    /\ loadingPhase' = loadingPhase
    /\ tasks' = [tasks EXCEPT ![i].pc = "done", ![i].query = <<>>, ![i].url = Null]

\* lines 84-87
Finally(i) ==
    /\ isLoading' = FALSE
    /\ loadingPhase' = ""
    /\ tasks' = [tasks EXCEPT ![i].pc = "done", ![i].query = <<>>, ![i].url = Null]

\* lines 82-87: an exception leaves the try block
Catch(i, err) ==
    /\ error' = Some(CatchMessage(err))
    /\ data' = data
    /\ Finally(i)
    /\ UNCHANGED <<searchQuery, overlap>>
    /\ Rerender
    /\ event' = Ev("catch", i)

\* line 74: fetch rejects (no connection, CORS, DNS)
FetchReject(i) ==
    /\ tasks[i].pc = "fetch"
    /\ Catch(i, FetchTypeError)

\* lines 74-78: a response arrives whose status is not 2xx
FetchNotOk(i) ==
    /\ tasks[i].pc = "fetch"
    /\ Catch(i, NotOkError)

\* lines 74-80: a 2xx response arrives; its body is read next
FetchOk(i) ==
    /\ tasks[i].pc = "fetch"
    /\ tasks' = [tasks EXCEPT ![i].pc = "json"]
    /\ UNCHANGED <<searchQuery, isLoading, data, error, loadingPhase, overlap, event>>
    /\ Rerender

\* lines 80-87: the body decodes
JsonResolve(i, body) ==
    /\ tasks[i].pc = "json"
    /\ data' = Some(body)
    /\ error' = error
    /\ Finally(i)
    /\ UNCHANGED <<searchQuery, overlap>>
    /\ Rerender
    /\ event' = Ev("setData", i)

\* lines 80-87: the body is not JSON
JsonReject(i) ==
    /\ tasks[i].pc = "json"
    /\ Catch(i, JsonSyntaxError)

Next ==
    \/ \E q \in Queries : SetSearchQuery(q)
    \/ ClickSearch
    \/ \E key \in Keys : OnKeyPress(key)
    \/ \E i \in TaskIds : Timer1(i)
    \/ \E i \in TaskIds : Timer2(i)
    \/ \E i \in TaskIds : FetchReject(i)
    \/ \E i \in TaskIds : FetchNotOk(i)
    \/ \E i \in TaskIds : FetchOk(i)
    \/ \E i \in TaskIds, body \in ServerBodies : JsonResolve(i, body)
    \/ \E i \in TaskIds : JsonReject(i)

Spec == Init /\ [][Next]_vars

\* the continuation of invocation i that the event loop runs next: the due
\* timer's callback or the settled promise's; at most one is enabled at a time
Resume(i) ==
    \/ Timer1(i)
    \/ Timer2(i)
    \/ FetchReject(i)
    \/ FetchNotOk(i)
    \/ FetchOk(i)
    \/ JsonReject(i)
    \/ \E body \in ServerBodies : JsonResolve(i, body)

\* every timer fires and every request settles
FairSpec == Spec /\ \A i \in TaskIds : WF_vars(Resume(i))

\* the component after one search for "a" has been answered with a well-formed
\* body (or before any search), re-rendered on every keystroke
RenderInit ==
    /\ searchQuery = <<"a">>
    /\ isLoading = FALSE
    /\ data \in {Null} \cup {Some(r) : r \in ApiResponse}
    /\ error = Null
    /\ loadingPhase = ""
    /\ view = Render(isLoading, data, error, loadingPhase)
    /\ tasks = [i \in TaskIds |->
                  IF i = 1 /\ data # Null
                  THEN [pc |-> "done", query |-> <<>>, url |-> Null,
                        calls |-> BeginCalls \o Timer1Calls \o Timer2Calls]
                  ELSE NoTask]
    /\ overlap = FALSE
    /\ event = IF data # Null THEN Ev("setData", 1) ELSE Ev("mount", 0)

RenderNext == \E q \in Queries : SetSearchQuery(q)

RenderSpec == RenderInit /\ [][RenderNext]_vars

-----------------------------------------------------------------------------
(* Properties *)

AllStartedDone == Started # {} /\ \A i \in Started : tasks[i].pc = "done"

\* the last step of handleSearch that ran was a finally block
JustCompleted == event.op \in {"catch", "setData"}

IsBlank(s) == \A k \in 1..Len(s) : s[k] = " "

\* C1: data and error are never populated together, whatever the interleaving
\* of handleSearch calls and response arrivals.
C1_MutuallyExclusive == ~(data # Null /\ error # Null)

\* C2: no handleSearch invocation, by click or by Enter, sets the state to
\* loading while it is already loading.
C2_LoadingOnlyFromRest ==
    [][(\E i \in TaskIds : tasks[i].pc = "none" /\ tasks'[i].pc # "none") => ~isLoading]_vars

\* C3: handleSearch called with an empty or whitespace-only query changes none
\* of isLoading, data, error, loadingPhase, searchQuery, issues no request
\* (no task is created, no url requested) and leaves the screen as it was.
C3_BlankIsNoOp ==
    [][(HandleSearch /\ IsBlank(searchQuery)) => UNCHANGED <<appState, tasks, view>>]_vars

\* C3 witness: handleSearch has just returned early on a whitespace-only query
\* while an earlier search was loading.
C3_Witness ==
    /\ event.op = "return"
    /\ searchQuery # <<>>
    /\ IsBlank(searchQuery)
    /\ isLoading
    /\ \E i \in TaskIds : InProgress(i)

\* C4: when a submission's request fails (fetch rejects, status not ok, body
\* not decodable) the state right after is: not loading, a non-empty error,
\* and data null.
C4_FailureLeavesErrorOnly ==
    event.op = "catch" =>
        /\ ~isLoading
        /\ error # Null
        /\ error # Some("")
        /\ data = Null

\* C5: when exactly two submissions were made, they overlapped and both have
\* completed, the visible data and error are exactly what the last-resolving
\* response produced: its body and no error, or its message and no data.
C5_LastResponseWins ==
    (/\ JustCompleted
     /\ Cardinality(Started) = 2
     /\ AllStartedDone
     /\ overlap)
    => /\ event.op = "setData" => data # Null /\ error = Null
       /\ event.op = "catch" => error # Null /\ data = Null

\* the kind of each call handleSearch makes
Kind(call) ==
    CASE call = "setIsLoading(true)" -> "loading"
      [] call \in {"setData(null)", "setError(null)"} -> "clear"
      [] call = "setLoadingPhase(Searching)" -> "Searching"
      [] call = "setLoadingPhase(Scraping)" -> "Scraping"
      [] call = "setLoadingPhase(Analyzing)" -> "Analyzing"
      [] call \in {"setTimeout(1500)", "setTimeout(2000)"} -> "pause"
      [] call = "fetch" -> "request"

Kinds(calls) == [k \in 1..Len(calls) |-> Kind(calls[k])]

IsPrefix(s, t) == Len(s) <= Len(t) /\ \A k \in 1..Len(s) : s[k] = t[k]

Requests(i) == Cardinality({k \in 1..Len(tasks[i].calls) : tasks[i].calls[k] = "fetch"})

\* the order as claimed: a pause after each of the three labels
OrderWithThreePauses ==
    <<"loading", "clear", "clear", "Searching", "pause", "Scraping", "pause",
      "Analyzing", "pause", "request">>

\* the order with a pause after the first two labels only
OrderWithTwoPauses ==
    <<"loading", "clear", "clear", "Searching", "pause", "Scraping", "pause",
      "Analyzing", "request">>

\* C6 as claimed: every submission sets loading and clears data and error, then
\* shows Searching, Scraping, Analyzing with a pause after each of the three,
\* and only then issues its one request.
C6_ThreePausesThenRequest ==
    \A i \in Started : IsPrefix(Kinds(tasks[i].calls), OrderWithThreePauses)

\* C6 amended: every submission sets loading and clears data and error, then
\* shows Searching, pauses, shows Scraping, pauses, shows Analyzing and issues
\* its request in that same step with no pause in between; a request exists
\* exactly from that step on and there is never a second one, also after a
\* failure.
C6_TwoPausesThenRequest ==
    /\ \A i \in Started :
          /\ IsPrefix(Kinds(tasks[i].calls), OrderWithTwoPauses)
          /\ Requests(i) = IF tasks[i].pc \in {"fetch", "json", "done"} THEN 1 ELSE 0
          /\ tasks[i].pc \in {"fetch", "json"} =>
                tasks[i].url = Some(ScrapeUrl(tasks[i].query))
          /\ tasks[i].pc \notin {"fetch", "json"} => tasks[i].url = Null
    /\ \A i \in TaskIds \ Started : Requests(i) = 0 /\ tasks[i].url = Null
    /\ event.op = "begin" =>
          isLoading /\ data = Null /\ error = Null /\ loadingPhase = Searching
    /\ event.op = "timer1" => loadingPhase = Scraping /\ Requests(event.task) = 0
    /\ event.op = "timer2" => loadingPhase = Analyzing /\ Requests(event.task) = 1

\* C6 witness: a submission whose request failed has completed, with its one
\* request on record.
C6_Witness ==
    /\ event.op = "catch"
    /\ tasks[event.task].pc = "done"
    /\ Requests(event.task) = 1
    /\ Kinds(tasks[event.task].calls) = OrderWithTwoPauses

C8_CountsEqualLengths ==
    /\ data = Null => view.chart = <<>> /\ view.results = Null
    /\ data # Null =>
          LET m == data[1].mentions
              lens == <<Len(m.positive), Len(m.neutral), Len(m.negative)>>
              shown == view.results[1]
          IN  /\ <<shown.positive, shown.neutral, shown.negative>> = lens
              /\ Len(view.chart) = 3
              /\ [k \in 1..3 |-> view.chart[k].name] = <<"Positive", "Neutral", "Negative">>
              /\ [k \in 1..3 |-> view.chart[k].count] = lens
              /\ Len(shown.articles) = Len(data[1].articles)
              /\ shown.sources = Len(data[1].articles)
    /\ data = Some(MkResponse(0, 0, 0, 0)) =>
          /\ [k \in 1..3 |-> view.chart[k].count] = <<0, 0, 0>>
          /\ view.results[1].articles = <<>>

\* C8 witness: a result whose three categories have three different lengths is
\* on screen after a re-render.
C8_Witness ==
    /\ searchQuery # <<"a">>
    /\ data # Null
    /\ view.results # Null
    /\ Len(data[1].mentions.positive) > Len(data[1].mentions.neutral)
    /\ Len(data[1].mentions.neutral) > Len(data[1].mentions.negative)
    /\ Len(data[1].articles) > 0

\* C9: loadingPhase is non-empty only while isLoading is true.
C9_PhaseOnlyWhileLoading == loadingPhase # "" => isLoading

\* C10: while any submission is in one of its delays or awaiting its response,
\* isLoading is true, the loading panel is shown and the button is disabled.
C10_LoadingWhileInProgress ==
    (\E i \in TaskIds : InProgress(i)) =>
        isLoading /\ view.loadingPanel # Null /\ view.buttonDisabled

====
